---- MODULE Spec2Model ----
(***************************************************************************)
(* Evidence research and scoring pipeline.                                 *)
(*   app/services/common/veridian_ai_research_service.py                   *)
(*       VerdianAIResearchService: the three orchestrators, their retry    *)
(*       loops, the tier validators                                        *)
(*   app/services/score_analyzer_service.py                                *)
(*       ScoreAnalyzerService: the batch runner over cities, pillars and   *)
(*       questions, its buffers and bulk upserts                           *)
(*                                                                         *)
(* Numbers.  A JSON int carries its value; a JSON float carries its value  *)
(* in thousandths (4.5 is FloatV(4500)).  Milli(v) is the value of either  *)
(* in thousandths.                                                         *)
(***************************************************************************)
EXTENDS Integers, Sequences, FiniteSets, TLC

(* ------------------------------ bounds -------------------------------- *)
NumCities == 2        \* rows of the Cities table
NumPillars == 3       \* pillars of a city (rows of the pillar view)
NumQuestions == 2     \* questions of one pillar (rows of the question view)
NumScopedQuestions == 11   \* questions of one pillar, in a run for one city and tier
NumTasks == 2         \* analysis requests the API receives for one city
NumTaskEntities == 2  \* entity rows a background run iterates
MaxScanLen == 4       \* characters of a text handed to the repair directly
MaxUnits == 2         \* characters and escape sequences of a string in a response

(* ------------------------- program constants -------------------------- *)
max_retries == 3
retry_delay == 1

(* ----------------------------- JSON values ---------------------------- *)
Absent == [t |-> "absent", n |-> 0, s |-> "", l |-> <<>>]
Null == [t |-> "null", n |-> 0, s |-> "", l |-> <<>>]
NaN == [t |-> "nan", n |-> 0, s |-> "", l |-> <<>>]
Inf == [t |-> "inf", n |-> 0, s |-> "", l |-> <<>>]
IntV(x) == [t |-> "int", n |-> x, s |-> "", l |-> <<>>]
FloatV(m) == [t |-> "float", n |-> m, s |-> "", l |-> <<>>]
StrV(x) == [t |-> "str", n |-> 0, s |-> x, l |-> <<>>]
ListV(items) == [t |-> "list", n |-> 0, s |-> "", l |-> items]

IsNumber(v) == v.t \in {"int", "float"}
Milli(v) == IF v.t = "int" THEN v.n * 1000 ELSE v.n
Abs(x) == IF x < 0 THEN -x ELSE x

\* variant: the upper bound is not compared
RangeCheck_lower_only(v, lo, hi) ==
    IF IsNumber(v) THEN (IF lo <= Milli(v) THEN "true" ELSE "false")
    ELSE IF v.t = "inf" THEN "true"
    ELSE IF v.t = "nan" THEN "false"
    ELSE "TypeError"

\* Python's chained comparison  lo <= v <= hi  on a parsed JSON value:
\* a number is compared, NaN compares false, Infinity is above every bound,
\* any other type raises TypeError.
RangeCheck(v, lo, hi) ==
    IF IsNumber(v) THEN (IF lo <= Milli(v) /\ Milli(v) <= hi THEN "true" ELSE "false")
    ELSE IF v.t \in {"nan", "inf"} THEN "false"
    ELSE "TypeError"

(* ------------------------------ payloads ------------------------------ *)
QuestionRequired == <<"ai_score", "ai_progress", "confidence_level", "evidence_summary",
    "data_sources_count", "source_type", "source_name", "source_url",
    "source_data_year", "source_trust_level", "source_data_extract">>
PillarRequired == <<"ai_score", "ai_progress", "confidence_level", "evidence_summary",
    "sources">>
CityRequired == <<"ai_score", "ai_progress", "confidence_level", "evidence_summary">>

QuestionOptional == {"red_flag", "geographic_equity_note"}
PillarOptional == {"red_flag", "geographic_equity_note", "institutional_assessment",
    "data_gap_analysis"}
CityOptional == {"cross_pillar_patterns", "institutional_capacity", "equity_assessment",
    "sustainability_outlook", "strategic_recommendation", "data_transparency_note"}

Range(seq) == {seq[i] : i \in 1..Len(seq)}
AllFields == Range(QuestionRequired) \cup Range(PillarRequired) \cup QuestionOptional
    \cup PillarOptional \cup CityOptional \cup {"source"}

Tiers == {"question", "pillar", "city"}
Required(tier) ==
    IF tier = "question" THEN QuestionRequired
    ELSE IF tier = "pillar" THEN PillarRequired ELSE CityRequired

\* the keys of one entry of a pillar's `sources` array, in the order the
\* batch runner reads them
SourceKeys == <<"source_type", "source_name", "source_url", "data_extract", "trust_level">>
SourceEntry(trust) == [k \in Range(SourceKeys) |->
    IF k = "trust_level" THEN trust ELSE StrV(k)]
Placeholder == [k \in Range(SourceKeys) |->
    IF k = "source_type" THEN StrV("Unknown")
    ELSE IF k = "source_name" THEN StrV("Data not available")
    ELSE IF k = "source_url" THEN StrV("Not available")
    ELSE IF k = "trust_level" THEN IntV(1)
    ELSE StrV("Insufficient data available")]

ConfidenceLevels == {StrV("High"), StrV("Medium"), StrV("Low")}

(* ------------------------- validation outcomes ------------------------ *)
\* exc = "none": the validator returned `data`; otherwise the exception class
\* raised, with the kind of message and the field the message names.
Ok(data) == [exc |-> "none", kind |-> "", field |-> "", data |-> data]
Err(exc, kind, field) == [exc |-> exc, kind |-> kind, field |-> field,
    data |-> [f \in AllFields |-> Absent]]

\* variant: the last field of the list is not looked for
MissingIdx_skip_last(req, data) == {i \in 1..(Len(req) - 1) : data[req[i]].t = "absent"}

MissingIdx(req, data) == {i \in 1..Len(req) : data[req[i]].t = "absent"}
FirstMissing(req, data) ==
    req[CHOOSE i \in MissingIdx(req, data) : \A j \in MissingIdx(req, data) : i <= j]

\* one `if not (lo <= data[f] <= hi): raise ValueError(...)` statement
RangeErr(data, f, lo, hi) ==
    LET c == RangeCheck(data[f], lo, hi)
    IN  IF c = "TypeError" THEN Err("TypeError", "type", f)
        ELSE IF c = "false" THEN Err("ValueError", "range", f)
        ELSE Ok(data)

_validate_question_response(data) ==
    IF MissingIdx(QuestionRequired, data) # {}
    THEN Err("ValueError", "missing", FirstMissing(QuestionRequired, data))
    ELSE IF RangeErr(data, "ai_score", 0, 4000).exc # "none"
    THEN RangeErr(data, "ai_score", 0, 4000)
    ELSE IF RangeErr(data, "ai_progress", 0, 100000).exc # "none"
    THEN RangeErr(data, "ai_progress", 0, 100000)
    ELSE IF RangeErr(data, "source_trust_level", 1000, 7000).exc # "none"
    THEN RangeErr(data, "source_trust_level", 1000, 7000)
    ELSE IF data["confidence_level"] \notin ConfidenceLevels
    THEN Ok([data EXCEPT !["confidence_level"] = StrV("Medium")])
    ELSE Ok(data)

_validate_pillar_response(data) ==
    IF MissingIdx(PillarRequired, data) # {}
    THEN Err("ValueError", "missing", FirstMissing(PillarRequired, data))
    ELSE IF RangeErr(data, "ai_score", 0, 4000).exc # "none"
    THEN RangeErr(data, "ai_score", 0, 4000)
    ELSE IF RangeErr(data, "ai_progress", 0, 100000).exc # "none"
    THEN RangeErr(data, "ai_progress", 0, 100000)
    ELSE IF data["sources"].t # "list" \/ Len(data["sources"].l) < 1
    THEN Ok([data EXCEPT !["sources"] = ListV(<<Placeholder>>)])
    ELSE Ok(data)

_validate_city_response(data) ==
    IF MissingIdx(CityRequired, data) # {}
    THEN Err("ValueError", "missing", FirstMissing(CityRequired, data))
    ELSE IF RangeErr(data, "ai_score", 0, 4000).exc # "none"
    THEN RangeErr(data, "ai_score", 0, 4000)
    ELSE IF RangeErr(data, "ai_progress", 0, 100000).exc # "none"
    THEN RangeErr(data, "ai_progress", 0, 100000)
    ELSE Ok(data)

Validate(tier, data) ==
    IF tier = "question" THEN _validate_question_response(data)
    ELSE IF tier = "pillar" THEN _validate_pillar_response(data)
    ELSE _validate_city_response(data)

(* ------------------------- numeric sanitizers ------------------------- *)
\* round(value, 2) on a value in thousandths (ties to even)
Round2(m) ==
    LET q == m \div 10
        r == m % 10
    IN  IF r < 5 THEN q * 10
        ELSE IF r > 5 THEN (q + 1) * 10
        ELSE IF q % 2 = 0 THEN q * 10 ELSE (q + 1) * 10

\* round(x) to an int on a value in thousandths (ties to even)
PyRound(m) ==
    LET q == m \div 1000
        r == m % 1000
    IN  IF r < 500 THEN q
        ELSE IF r > 500 THEN q + 1
        ELSE IF q % 2 = 0 THEN q ELSE q + 1

\* int(x): truncation toward zero of a value in thousandths
Trunc(m) == IF m >= 0 THEN m \div 1000 ELSE -((-m) \div 1000)

\* float(s) on the strings of the model: the value in thousandths, or -1
\* when float() raises
ParseFloat(s) ==
    IF s = "3" THEN 3000
    ELSE IF s = "7" THEN 7000
    ELSE IF s = "2.5" THEN 2500
    ELSE -1

\* a float that is NaN or infinite, where a number in thousandths is expected
NonFiniteFloat == 2000000000

\* variant: math.isnan / math.isinf are not consulted
to_float_safe_unchecked(v) ==
    IF v.t = "null" THEN 0
    ELSE IF v.t \in {"nan", "inf"} THEN NonFiniteFloat
    ELSE IF v.t = "float" THEN Round2(v.n)
    ELSE IF v.t = "int" THEN v.n * 1000
    ELSE IF v.t = "str"
    THEN (IF ParseFloat(v.s) < 0 THEN 0 ELSE Round2(ParseFloat(v.s)))
    ELSE 0

\* the result is a float, in thousandths
to_float_safe(v) ==
    IF v.t = "null" THEN 0
    ELSE IF v.t \in {"nan", "inf"} THEN 0
    ELSE IF v.t = "float" THEN Round2(v.n)
    ELSE IF v.t = "int" THEN v.n * 1000
    ELSE IF v.t = "str"
    THEN (IF ParseFloat(v.s) < 0 THEN 0 ELSE Round2(ParseFloat(v.s)))
    ELSE 0

\* the result is an int
to_int_safe(v) ==
    IF v.t = "null" THEN 0
    ELSE IF v.t = "int" THEN v.n
    ELSE IF v.t \in {"nan", "inf"} THEN 0
    ELSE IF v.t = "float" THEN Trunc(v.n)
    ELSE IF v.t = "str"
    THEN (IF ParseFloat(v.s) < 0 THEN 0 ELSE Trunc(ParseFloat(v.s)))
    ELSE 0

\* abs(a - b) on two numbers (NaN propagates; int - int stays an int)
AbsDiff(a, b) ==
    IF a.t = "nan" \/ b.t = "nan" THEN NaN
    ELSE IF a.t = "inf" /\ b.t = "inf" THEN NaN
    ELSE IF a.t = "inf" \/ b.t = "inf" THEN Inf
    ELSE IF a.t = "int" /\ b.t = "int" THEN IntV(Abs(a.n - b.n))
    ELSE FloatV(Abs(Milli(a) - Milli(b)))

_calculate_discrepancy(ai_progress, evaluator_score) ==
    IF evaluator_score.t # "null" THEN AbsDiff(ai_progress, evaluator_score)
    ELSE ai_progress

\* research_and_score_question: abs(ai_progress - ((evaluator_score/4)*100))
QuestionDiscrepancy(ai_progress, evaluator_score) ==
    IF evaluator_score.t # "null"
    THEN AbsDiff(ai_progress, FloatV(Milli(evaluator_score) * 25))
    ELSE ai_progress

(* --------------------------- engine responses ------------------------- *)
\* What one invocation of the chain yields: an exception of class `exc`, or
\* a text.  Of a text the model keeps whether it holds a '{' and a '}', whether
\* the object text parses (at once or after _fix_json_escaping), and the
\* object it denotes.
TierFields(tier) ==
    IF tier = "question" THEN Range(QuestionRequired) \cup QuestionOptional
    ELSE IF tier = "pillar" THEN Range(PillarRequired) \cup PillarOptional
    ELSE Range(CityRequired) \cup CityOptional \cup {"source"}

EmptyPayload == [f \in AllFields |-> Absent]

Base(tier) == [f \in AllFields |->
    IF f \notin TierFields(tier) THEN Absent
    ELSE IF f = "ai_score" THEN FloatV(3000)
    ELSE IF f = "ai_progress" THEN IntV(75)
    ELSE IF f = "confidence_level" THEN StrV("High")
    ELSE IF f = "sources" THEN ListV(<<SourceEntry(IntV(7))>>)
    ELSE IF f = "source_trust_level" THEN IntV(7)
    ELSE IF f = "data_sources_count" THEN IntV(3)
    ELSE IF f = "source_data_year" THEN IntV(2024)
    ELSE StrV(f)]

Variants(f) ==
    IF f = "ai_score"
    THEN {Absent, FloatV(4500), FloatV(-10), IntV(0), IntV(4), NaN, Inf, StrV("3"), Null}
    ELSE IF f = "ai_progress"
    THEN {Absent, IntV(101), IntV(-1), IntV(0), IntV(100), FloatV(40000), NaN}
    ELSE IF f = "confidence_level"
    THEN {Absent, StrV("Medium"), StrV("Low"), StrV("Very High"), Null}
    ELSE IF f = "source_trust_level"
    THEN {Absent, IntV(0), IntV(1), IntV(8), FloatV(6500), StrV("7")}
    ELSE IF f = "sources"
    THEN {Absent, Null, StrV("none"), ListV(<<>>),
          ListV(<<SourceEntry(IntV(7)), SourceEntry(IntV(5))>>),
          ListV(<<SourceEntry(IntV(9))>>),
          ListV(<<SourceEntry(StrV("high"))>>),
          ListV(<<SourceEntry(IntV(6)),
                  [SourceEntry(IntV(4)) EXCEPT !["source_url"] = Absent]>>)}
    ELSE {Absent}

Payloads(tier) ==
    {Base(tier), EmptyPayload}
    \cup {[Base(tier) EXCEPT ![f] = v] : <<f, v>> \in
            UNION {{<<g, w>> : w \in Variants(g)} : g \in TierFields(tier)}}
    \cup {[Base(tier) EXCEPT !["ai_score"] = FloatV(4500),
                             !["confidence_level"] = StrV("Very High")],
          [Base(tier) EXCEPT !["evidence_summary"] = Absent,
                             !["ai_progress"] = Absent],
          [Base(tier) EXCEPT !["ai_progress"] = IntV(40),
                             !["confidence_level"] = StrV("Very High")]}

EngineExceptions == {"ConnectionError", "ValueError"}

Raise(exc) == [kind |-> "raise", exc |-> exc, braces |-> FALSE, parses |-> FALSE,
    payload |-> EmptyPayload]
Text(braces, parses, payload) == [kind |-> "text", exc |-> "", braces |-> braces,
    parses |-> parses, payload |-> payload]

Responses(tier) ==
    {Raise(e) : e \in EngineExceptions}
    \cup {Text(FALSE, FALSE, EmptyPayload), Text(TRUE, FALSE, EmptyPayload)}
    \cup {Text(TRUE, TRUE, p) : p \in Payloads(tier)}

ResponsesOf == [tier \in Tiers |-> Responses(tier)]

\* the answers drawn while a batch runs: per tier, the transport error, a text
\* without an object, and the payloads that differ in what the batch stores
BatchPayloads(tier) ==
    {Base(tier),
     [Base(tier) EXCEPT !["ai_score"] = FloatV(4500)],
     [Base(tier) EXCEPT !["ai_progress"] = IntV(101)],
     [Base(tier) EXCEPT !["confidence_level"] = StrV("Very High")]}
    \cup (IF tier = "question"
          THEN {[Base(tier) EXCEPT !["source_trust_level"] = IntV(8)],
                [Base(tier) EXCEPT !["source_trust_level"] = FloatV(6500)],
                [Base(tier) EXCEPT !["data_sources_count"] = StrV("many"),
                                   !["source_data_year"] = Null],
                [Base(tier) EXCEPT !["data_sources_count"] = Inf,
                                   !["source_data_year"] = StrV("2.5")]}
          ELSE IF tier = "pillar"
          THEN {[Base(tier) EXCEPT !["sources"] = v] : v \in
                   {ListV(<<>>), ListV(<<SourceEntry(IntV(9))>>),
                    ListV(<<SourceEntry(StrV("high"))>>),
                    ListV(<<SourceEntry(IntV(6)),
                            [SourceEntry(IntV(4)) EXCEPT !["source_url"] = Absent]>>)}}
          ELSE {[Base(tier) EXCEPT !["source"] = Absent]})
BatchResponsesOf == [tier \in Tiers |->
    {Raise("ConnectionError"), Text(FALSE, FALSE, EmptyPayload)}
    \cup {Text(TRUE, TRUE, p) : p \in BatchPayloads(tier)}]

\* _clean_json_response followed by json.loads(cleaned): the parsed object,
\* or the ValueError that the cleaning raises
_clean_json_response(resp) ==
    IF ~resp.braces THEN Err("ValueError", "extraction", "")
    ELSE IF ~resp.parses THEN Err("ValueError", "decode", "")
    ELSE Ok(resp.payload)

(* ------------------------ shaping of the result ----------------------- *)
OutFields == AllFields \cup {"discrepancy"}
EmptyOut == [f \in OutFields |-> Absent]

\* analysis.get(f, default)
Get(analysis, f, default) == IF analysis[f].t = "absent" THEN default ELSE analysis[f]

\* the keys the return statement reads with analysis[...]
Indexed(tier) ==
    IF tier = "question"
    THEN {"ai_score", "ai_progress", "confidence_level", "data_sources_count",
          "evidence_summary", "source_type", "source_name", "source_url",
          "source_data_year", "source_data_extract", "source_trust_level"}
    ELSE IF tier = "pillar"
    THEN {"ai_score", "ai_progress", "confidence_level", "evidence_summary"}
    ELSE {"ai_score", "ai_progress", "confidence_level", "evidence_summary", "source"}

\* the keys the return statement reads with analysis.get(...)
Defaulted(tier) ==
    IF tier = "question" THEN QuestionOptional
    ELSE IF tier = "pillar" THEN PillarOptional \cup {"sources"}
    ELSE CityOptional

Discrepancy(tier, ai_progress, evaluator_score) ==
    IF tier = "question" THEN QuestionDiscrepancy(ai_progress, evaluator_score)
    ELSE _calculate_discrepancy(ai_progress, evaluator_score)

\* the success record built from a validated analysis; KeyError when a key
\* read with analysis[...] is not there
Shape(tier, analysis, evaluator_score) ==
    IF \E f \in Indexed(tier) : analysis[f].t = "absent"
    THEN [exc |-> "KeyError", kind |-> "key",
          field |-> CHOOSE f \in Indexed(tier) : analysis[f].t = "absent",
          out |-> EmptyOut]
    ELSE [exc |-> "none", kind |-> "", field |-> "",
          out |-> [f \in OutFields |->
              IF f = "discrepancy"
              THEN Discrepancy(tier, analysis["ai_progress"], evaluator_score)
              ELSE IF f \in Indexed(tier) THEN analysis[f]
              ELSE IF f = "sources" /\ tier = "pillar" THEN Get(analysis, f, ListV(<<>>))
              ELSE IF f \in Defaulted(tier) THEN Get(analysis, f, StrV(""))
              ELSE Absent]]

\* the body of the inner try of one attempt, after the chain has answered
Attempt(tier, resp, evaluator_score) ==
    LET cleaned == _clean_json_response(resp)
        analysis == Validate(tier, cleaned.data)
    IN  IF resp.kind = "raise"
        THEN [exc |-> resp.exc, kind |-> "engine", field |-> "", out |-> EmptyOut]
        ELSE IF cleaned.exc # "none"
        THEN [exc |-> cleaned.exc, kind |-> cleaned.kind, field |-> "", out |-> EmptyOut]
        ELSE IF analysis.exc # "none"
        THEN [exc |-> analysis.exc, kind |-> analysis.kind, field |-> analysis.field,
              out |-> EmptyOut]
        ELSE Shape(tier, analysis.data, evaluator_score)

\* except (json.JSONDecodeError, ValueError): the classes the retry loop catches
Retried(exc) == exc \in {"JSONDecodeError", "ValueError"}

\* variant: the outer handler catches ValueError only
Handled_value_only(exc) == exc \in {"JSONDecodeError", "ValueError"}

\* except Exception: the classes the orchestrator's outer handler catches
Handled(exc) == TRUE

\* variant: one attempt too many
MoreAttempts_off_by_one(attempt) == attempt <= max_retries - 1

\* `if attempt < self.max_retries - 1`: sleep and try again, else re-raise
MoreAttempts(attempt) == attempt < max_retries - 1

(* ------------------- the text of an engine response ------------------- *)
\* A text is a sequence of characters, a character a string; the marker of a
\* code fence and the typographic characters that the cleaning replaces are
\* one element each.
DQ == "\""
BS == "\\"
SQ == "'"
NL == "\n"
TAB == "\t"
CR == "\r"
FENCE == "<fence>"
EN_DASH == "<en dash>"
LDQUO == "<left double quote>"
Controls == {NL, TAB, CR}
Whitespace == {" ", NL, TAB, CR}
Punctuation == {"{", "}", ":", ","}

RECURSIVE Concat(_)
\* ''.join(parts)
Concat(parts) == IF parts = <<>> THEN <<>> ELSE Head(parts) \o Concat(Tail(parts))

\* `if next_char in ['"', '\\', '/', 'b', 'f', 'n', 'r', 't', 'u']`
ValidEscapes == {DQ, BS, "/", "b", "f", "n", "r", "t", "u"}

\* _fix_json_escaping: one pass of `while i < len(json_str)`; i counts from 1
FixStep(s) ==
    LET char == s.json_str[s.i]
        Emit(chars, k) == [s EXCEPT !.result = @ \o chars, !.i = @ + k]
    IN  IF char = DQ /\ (s.i = 1 \/ s.json_str[s.i - 1] # BS)
        THEN [s EXCEPT !.in_string = ~@, !.result = Append(@, char), !.i = @ + 1]
        ELSE IF s.in_string
        THEN IF char = BS /\ s.i + 1 <= Len(s.json_str)
             THEN LET next_char == s.json_str[s.i + 1]
                  IN  IF next_char \in ValidEscapes THEN Emit(<<char, next_char>>, 2)
                      ELSE IF next_char = SQ THEN Emit(<<SQ>>, 2)
                      ELSE Emit(<<BS, BS>>, 1)
             ELSE IF char = NL THEN Emit(<<BS, "n">>, 1)
             ELSE IF char = CR THEN Emit(<<BS, "r">>, 1)
             ELSE IF char = TAB THEN Emit(<<BS, "t">>, 1)
             ELSE Emit(<<char>>, 1)
        ELSE Emit(<<char>>, 1)

\* _fix_json_escaping: `result = []; i = 0; in_string = False`
FixStart(json_str) == [json_str |-> json_str, i |-> 1, in_string |-> FALSE, result |-> <<>>]

RECURSIVE FixLoop(_)
FixLoop(s) == IF s.i > Len(s.json_str) THEN s ELSE FixLoop(FixStep(s))

\* _fix_json_escaping(json_str): ''.join(result)
_fix_json_escaping(json_str) == FixLoop(FixStart(json_str)).result

\* json.loads, for the texts of flat objects whose keys and values are
\* strings: the tokens of the text, then the object they spell
PunctTok(c) == [k |-> "punct", c |-> c, s |-> <<>>]
StrTok(content) == [k |-> "str", c |-> "", s |-> content]
\* the character an escape sequence of a JSON string stands for
Unescaped(c) ==
    IF c = "n" THEN NL ELSE IF c = "t" THEN TAB ELSE IF c = "r" THEN CR
    ELSE IF c = "b" THEN "<backspace>" ELSE IF c = "f" THEN "<form feed>" ELSE c
\* the escapes the decoder reads without further characters (\u takes four
\* hexadecimal digits, which no text here has)
Decodable == ValidEscapes \ {"u"}

RECURSIVE Lex(_, _, _, _, _, _)
\* the scanner of the decoder from position i on: in_str tells whether a string
\* is open, cur is its content so far; bad when the text is no JSON.  With
\* strict = False control characters are allowed inside strings.
Lex(text, strict, i, in_str, cur, toks) ==
    IF i > Len(text) THEN [bad |-> in_str, toks |-> toks]
    ELSE LET c == text[i]
         IN  IF in_str
             THEN IF c = DQ THEN Lex(text, strict, i + 1, FALSE, <<>>, Append(toks, StrTok(cur)))
                  ELSE IF c = BS
                  THEN IF i + 1 <= Len(text) /\ text[i + 1] \in Decodable
                       THEN Lex(text, strict, i + 2, TRUE, Append(cur, Unescaped(text[i + 1])), toks)
                       ELSE [bad |-> TRUE, toks |-> toks]
                  ELSE IF c \in Controls /\ strict THEN [bad |-> TRUE, toks |-> toks]
                  ELSE Lex(text, strict, i + 1, TRUE, Append(cur, c), toks)
             ELSE IF c = DQ THEN Lex(text, strict, i + 1, TRUE, <<>>, toks)
                  ELSE IF c \in Whitespace THEN Lex(text, strict, i + 1, FALSE, cur, toks)
                  ELSE IF c \in Punctuation
                  THEN Lex(text, strict, i + 1, FALSE, cur, Append(toks, PunctTok(c)))
                  ELSE [bad |-> TRUE, toks |-> toks]

\* `{`, then string `:` string groups separated by `,`, then `}`
IsObject(toks) ==
    LET n == Len(toks)
        Expected(j) ==   \* the token at place j of the inside, j from 0
            IF j % 4 = 0 \/ j % 4 = 2 THEN "str"
            ELSE IF j % 4 = 1 THEN ":" ELSE ","
    IN  /\ n >= 2
        /\ toks[1] = PunctTok("{") /\ toks[n] = PunctTok("}")
        /\ n = 2 \/ (n - 2) % 4 = 3
        /\ \A j \in 0..(n - 3) :
              IF Expected(j) = "str" THEN toks[j + 2].k = "str"
              ELSE toks[j + 2] = PunctTok(Expected(j))

NoObject == [ok |-> FALSE, pairs |-> <<>>]
\* json.loads(text, strict=strict): the key and value of every member, or
\* JSONDecodeError
Loads(text, strict) ==
    LET lexed == Lex(text, strict, 1, FALSE, <<>>, <<>>)
        toks == lexed.toks
    IN  IF lexed.bad \/ ~IsObject(toks) THEN NoObject
        ELSE [ok |-> TRUE,
              pairs |-> [m \in 1..((Len(toks) - 1) \div 4) |->
                            <<toks[4 * m - 2].s, toks[4 * m].s>>]]

JsonLoads(text) == Loads(text, TRUE)

\* str.strip()
RECURSIVE LStrip(_)
LStrip(text) ==
    IF text # <<>> /\ Head(text) \in Whitespace THEN LStrip(Tail(text)) ELSE text
RECURSIVE RStrip(_)
RStrip(text) ==
    IF text # <<>> /\ text[Len(text)] \in Whitespace
    THEN RStrip(SubSeq(text, 1, Len(text) - 1)) ELSE text
Strip(text) == RStrip(LStrip(text))

\* str.find / str.rfind of one character, counted from 1; 0 when not there
Find(text, c) ==
    IF \E i \in 1..Len(text) : text[i] = c
    THEN CHOOSE i \in 1..Len(text) : text[i] = c /\ \A j \in 1..(i - 1) : text[j] # c
    ELSE 0
RFind(text, c) ==
    IF \E i \in 1..Len(text) : text[i] = c
    THEN CHOOSE i \in 1..Len(text) : text[i] = c /\ \A j \in (i + 1)..Len(text) : text[j] # c
    ELSE 0

\* `response.split('```', 2)[1]` of a text that starts with the fence: what
\* stands between the first fence and the next one, or the end
AfterFence(text) ==
    LET rest == Tail(text)
        close == Find(rest, FENCE)
    IN  IF close = 0 THEN rest ELSE SubSeq(rest, 1, close - 1)

\* `if response.startswith('json'): response = response[4:]`
LANG_json == "json"
DropTag(text) == IF text # <<>> /\ Head(text) = LANG_json THEN Tail(text) ELSE text

\* the replacements of typographic characters and the removal of control
\* characters, character by character
DEL == "<del>"
Replaced(c) ==
    IF c = LDQUO THEN <<DQ>> ELSE IF c = EN_DASH THEN <<"-">>
    ELSE IF c = DEL THEN <<>> ELSE <<c>>
Normalise(text) == Concat([i \in 1..Len(text) |-> Replaced(text[i])])

\* _clean_json_response up to the first json.loads: the text between the first
\* `{` and the last `}`, normalised; none when a brace is missing
Extract(response) ==
    LET stripped == Strip(response)
        unfenced == IF stripped # <<>> /\ Head(stripped) = FENCE
                    THEN Strip(DropTag(AfterFence(stripped))) ELSE stripped
        start_idx == Find(unfenced, "{")
        end_idx == RFind(unfenced, "}")
    IN  IF start_idx = 0 \/ end_idx = 0 THEN [found |-> FALSE, json_str |-> <<>>]
        ELSE [found |-> TRUE, json_str |-> Normalise(SubSeq(unfenced, start_idx, end_idx))]

\* _clean_json_response(response), on the text: the cleaned text, or the
\* ValueError of a missing brace or of a text that the repair does not mend
CleanText(response) ==
    LET x == Extract(response)
        json_str_fixed == _fix_json_escaping(x.json_str)
    IN  IF ~x.found THEN [exc |-> "ValueError", kind |-> "extraction", text |-> <<>>]
        ELSE IF JsonLoads(x.json_str).ok THEN [exc |-> "none", kind |-> "", text |-> x.json_str]
        ELSE IF JsonLoads(json_str_fixed).ok
        THEN [exc |-> "none", kind |-> "", text |-> json_str_fixed]
        ELSE [exc |-> "ValueError", kind |-> "decode", text |-> <<>>]

(* ------------------------------- state -------------------------------- *)
VARIABLES
    llm_initialized,   \* VerdianAIResearchService._initialized
    llm,               \* VerdianAIResearchService.llm: 0 for None, else the number of
                       \* the handle, counted in the order llm_factory made them
    tasks,             \* the background tasks the router has created
    scan,              \* _clean_json_response / _fix_json_escaping at work on a text
    call,              \* the orchestrator call in progress: its position and counters
    result,            \* what the call handed to its caller
    lastResp,          \* the engine's answer to the latest invocation of the call
    run,               \* the entry point of the batch runner: its position and return value
    questionList,      \* analyze_PillarQuestions: buffer of the current pillar
    pillarList,        \* analyze_cityPillar: buffer of pillar rows
    pillarSourceList,  \* analyze_cityPillar: buffer of source rows
    cityList,          \* analyze_city: buffer of city rows
    upsertCall,        \* the bulk upsert issued by the latest step, if any
    entityStatus       \* outcome of each row of the loop in progress, in order

vars == <<llm_initialized, llm, tasks, scan, call, result, lastResp, run, questionList, pillarList,
    pillarSourceList, cityList, upsertCall, entityStatus>>

NoError == [exc |-> "none", kind |-> "", field |-> ""]
NoResult == [present |-> FALSE, success |-> FALSE, raised |-> FALSE,
    error |-> NoError, out |-> EmptyOut]
Success(out) == [present |-> TRUE, success |-> TRUE, raised |-> FALSE,
    error |-> NoError, out |-> out]
\* the outer `except Exception` turns the exception into {success: False, error};
\* an exception it does not catch leaves the call
Failure(exc, kind, field) == [present |-> TRUE, success |-> FALSE, raised |-> ~Handled(exc),
    error |-> [exc |-> exc, kind |-> kind, field |-> field], out |-> EmptyOut]

NoResp == [kind |-> "none", exc |-> "", braces |-> FALSE, parses |-> FALSE,
    payload |-> EmptyPayload]
NoCall == [kind |-> "none", rows |-> <<>>, sources |-> <<>>, raised |-> FALSE]

IdleCall == [pc |-> "idle", tier |-> "question", attempt |-> 0, initAttempt |-> 0,
    invocations |-> 0, delays |-> 0, parseOnly |-> TRUE, evaluator |-> Null, ctx |-> TRUE,
    scoreProgress |-> Null]
NewCall(tier, evaluator, ctx) == [IdleCall EXCEPT !.tier = tier, !.evaluator = evaluator,
    !.ctx = ctx]

NoStatus == [tier |-> "none", rows |-> 0, st |-> <<>>]
\* no text is being cleaned
NoScan == [pc |-> "idle", source |-> "none", response |-> <<>>, object |-> <<>>,
    fix |-> FixStart(<<>>), exc |-> "none", kind |-> "", text |-> <<>>]
\* a background task the router has not created yet
NoTask == [pc |-> "none", entity |-> 0, attempt |-> 0, initAttempt |-> 0]

Init ==
    /\ llm_initialized = FALSE
    /\ llm = 0
    /\ tasks = [t \in 1..NumTasks |-> NoTask]
    /\ scan = NoScan
    /\ call = IdleCall
    /\ result = NoResult
    /\ lastResp = NoResp
    /\ run = [pc |-> "idle", entry |-> "none", ncities |-> 0, npillars |-> 0,
              city |-> 0, pillar |-> 0, row |-> 0,
              ret |-> "none", counted |-> FALSE, iterated |-> 0, invoked |-> 0]
    /\ questionList = <<>>
    /\ pillarList = <<>>
    /\ pillarSourceList = <<>>
    /\ cityList = <<>>
    /\ upsertCall = NoCall
    /\ entityStatus = NoStatus

(* --------------------------- the orchestrators ------------------------ *)
\* the code between _ensure_initialized and the retry loop: the city
\* orchestrator concatenates pillars_context, a TypeError when it is None
AfterInit(c) ==
    IF c.tier = "city" /\ ~c.ctx
    THEN [call |-> [c EXCEPT !.pc = "returned"],
          result |-> Failure("TypeError", "concat", "pillars_context")]
    ELSE [call |-> [c EXCEPT !.pc = "invoke", !.attempt = 0], result |-> NoResult]

\* entry of research_and_score_*: _ensure_initialized
Begin(c) ==
    IF llm_initialized THEN AfterInit(c)
    ELSE [call |-> [c EXCEPT !.pc = "init", !.initAttempt = 0], result |-> NoResult]

\* initialize: one llm_factory.create_llm() attempt
InitAttempt ==
    /\ call.pc = "init"
    /\ \E ok \in BOOLEAN :
        IF ok
        THEN /\ llm_initialized' = TRUE
             /\ llm' = llm + 1
             /\ call' = AfterInit(call).call
             /\ result' = AfterInit(call).result
        ELSE /\ llm_initialized' = llm_initialized
             /\ llm' = llm
             /\ IF MoreAttempts(call.initAttempt)
                THEN call' = [call EXCEPT !.pc = "initSleep"] /\ result' = result
                ELSE /\ call' = [call EXCEPT !.pc = "returned"]
                     /\ result' = Failure("RuntimeError", "init", "")
    /\ upsertCall' = NoCall
    /\ UNCHANGED <<lastResp, run, questionList, pillarList, pillarSourceList, cityList,
                   entityStatus>>
    /\ UNCHANGED <<tasks, scan>>

\* initialize: asyncio.sleep(retry_delay) is over
InitDelay ==
    /\ call.pc = "initSleep"
    /\ call' = [call EXCEPT !.pc = "init", !.initAttempt = @ + 1]
    /\ upsertCall' = NoCall
    /\ UNCHANGED <<llm_initialized, result, lastResp, run, questionList, pillarList,
                   pillarSourceList, cityList, entityStatus>>
    /\ UNCHANGED <<llm, tasks, scan>>

\* one iteration of `for attempt in range(self.max_retries)`: the chain answers
\* and the answer is cleaned, parsed, validated and shaped
EngineInvoke(answers) ==
    /\ call.pc = "invoke"
    /\ \E resp \in answers :
        LET a == Attempt(call.tier, resp, call.evaluator)
            c == [call EXCEPT !.invocations = @ + 1]
        IN  /\ lastResp' = resp
            /\ IF a.exc = "none"
               THEN /\ call' = [c EXCEPT !.pc = "returned"]
                    /\ result' = Success(a.out)
               ELSE IF Retried(a.exc) /\ MoreAttempts(call.attempt)
               THEN /\ call' = [c EXCEPT !.pc = "sleep",
                                         !.parseOnly = @ /\ resp.kind = "text"]
                    /\ result' = result
               ELSE /\ call' = [c EXCEPT !.pc = "returned"]
                    /\ result' = Failure(a.exc, a.kind, a.field)
    /\ upsertCall' = NoCall
    /\ UNCHANGED <<llm_initialized, run, questionList, pillarList, pillarSourceList,
                   cityList, entityStatus>>
    /\ UNCHANGED <<llm, tasks, scan>>

EngineReturn == EngineInvoke(ResponsesOf[call.tier])
BatchEngineReturn == EngineInvoke(BatchResponsesOf[call.tier])

\* asyncio.sleep(self.retry_delay) is over; `continue` starts the next attempt
Delay ==
    /\ call.pc = "sleep"
    /\ call' = [call EXCEPT !.pc = "invoke", !.attempt = @ + 1, !.delays = @ + 1]
    /\ lastResp' = NoResp
    /\ upsertCall' = NoCall
    /\ UNCHANGED <<llm_initialized, result, run, questionList, pillarList,
                   pillarSourceList, cityList, entityStatus>>
    /\ UNCHANGED <<llm, tasks, scan>>

\* a caller awaits research_and_score_question / _pillar / _city with its
\* optional arguments given or left out
Evaluators == {Null, IntV(3), FloatV(60000)}
\* the scoreProgress argument of research_and_score_question
ScoreProgresses == {Null, FloatV(60000)}
Call ==
    /\ run.pc = "idle" /\ call.pc = "idle"
    /\ \E tier \in Tiers, ev \in Evaluators, ctx \in BOOLEAN, sp \in ScoreProgresses :
        LET b == Begin([NewCall(tier, ev, ctx) EXCEPT
                          !.scoreProgress = IF tier = "question" THEN sp ELSE Null])
        IN  call' = b.call /\ result' = b.result
    /\ lastResp' = NoResp
    /\ upsertCall' = NoCall
    /\ UNCHANGED <<llm_initialized, run, questionList, pillarList, pillarSourceList,
                   cityList, entityStatus>>
    /\ UNCHANGED <<llm, tasks, scan>>

\* the caller has the returned record
Return ==
    /\ run.pc = "idle" /\ call.pc = "returned"
    /\ call' = IdleCall
    /\ result' = NoResult
    /\ lastResp' = NoResp
    /\ upsertCall' = NoCall
    /\ UNCHANGED <<llm_initialized, run, questionList, pillarList, pillarSourceList,
                   cityList, entityStatus>>
    /\ UNCHANGED <<llm, tasks, scan>>

(* ---------------------------- the batch runner ------------------------ *)
NumCityRows == 1      \* rows of vw_CityEvaluations for one city

\* column values of the view rows (the rows of a view differ in their baseline)
NormalizedValueOf(q) ==
    IF q % 3 = 1 THEN FloatV(600) ELSE IF q % 3 = 2 THEN NaN ELSE FloatV(500)
ScoreProgressOf(q) ==
    IF q % 3 = 1 THEN FloatV(60000) ELSE IF q % 3 = 2 THEN NaN ELSE FloatV(50000)
EvaluatorProgressOf(p) ==
    IF p % 3 = 1 THEN FloatV(60000) ELSE IF p % 3 = 2 THEN NaN ELSE Null

\* `if normalizedValue is None or ... math.isnan(normalizedValue): normalizedValue = 0`
Normalized(v) == IF v.t \in {"null", "nan"} THEN IntV(0) ELSE v
\* round(normalizedValue * 4.0)
EvaluatorScore(v) == IntV(PyRound(4 * Milli(Normalized(v))))
\* normalizedValue * 100
Times100(v) == IF v.t = "int" THEN IntV(100 * v.n) ELSE FloatV(100 * v.n)

\* `year = datetime.now().year`, the "year" of every result of a batch
CurrentYear == 2026

QuestionRow(city, pillar, q, out) ==
    [CityID |-> city, PillarID |-> pillar, QuestionID |-> q,
     Year |-> to_int_safe(IntV(CurrentYear)),
     AIScore |-> to_float_safe(out["ai_score"]),
     AIProgress |-> to_float_safe(out["ai_progress"]),
     EvaluatorProgress |-> to_float_safe(Times100(Normalized(NormalizedValueOf(q)))),
     Discrepancy |-> to_float_safe(out["discrepancy"]),
     ConfidenceLevel |-> out["confidence_level"],
     DataSourcesUsed |-> to_int_safe(out["data_sources_count"]),
     SourceDataYear |-> to_int_safe(out["source_data_year"]),
     SourceTrustLevel |-> to_int_safe(out["source_trust_level"])]

PillarRow(city, pillar, out) ==
    [CityID |-> city, PillarID |-> pillar,
     Year |-> to_int_safe(IntV(CurrentYear)),
     AIScore |-> to_float_safe(out["ai_score"]),
     AIProgress |-> to_float_safe(out["ai_progress"]),
     EvaluatorProgress |-> to_float_safe(EvaluatorProgressOf(pillar)),
     Discrepancy |-> to_float_safe(out["discrepancy"]),
     ConfidenceLevel |-> out["confidence_level"]]

SourceRow(city, pillar, src) ==
    [CityID |-> city, PillarID |-> pillar,
     DataYear |-> to_int_safe(IntV(CurrentYear)),
     SourceType |-> src["source_type"], SourceName |-> src["source_name"],
     SourceURL |-> src["source_url"], DataExtract |-> src["data_extract"],
     TrustLevel |-> to_int_safe(src["trust_level"])]

CityRow(city, out) ==
    [CityID |-> city,
     Year |-> to_int_safe(IntV(CurrentYear)),
     AIScore |-> to_float_safe(out["ai_score"]),
     AIProgress |-> to_float_safe(out["ai_progress"]),
     EvaluatorProgress |-> to_float_safe(EvaluatorProgressOf(city)),
     Discrepancy |-> to_float_safe(out["discrepancy"]),
     ConfidenceLevel |-> out["confidence_level"]]

\* src[k] for every key of the dict literal: KeyError at the first entry
\* that lacks one
Complete(src) == \A k \in Range(SourceKeys) : src[k].t # "absent"
FirstBad(l) ==
    IF \E i \in 1..Len(l) : ~Complete(l[i])
    THEN CHOOSE i \in 1..Len(l) : ~Complete(l[i]) /\ \A j \in 1..(i - 1) : Complete(l[j])
    ELSE Len(l) + 1
\* the rows `for src in ai_data["sources"]` appends before it ends or raises
Flattened(city, pillar, l) ==
    [i \in 1..(FirstBad(l) - 1) |-> SourceRow(city, pillar, l[i])]

\* variant: the body of the loop over the rows has no handler of its own
RowHandled_none(exc) == FALSE

\* the `except Exception` around the body of the loop over the rows: the
\* classes it catches, logs and answers with `continue`
RowHandled(exc) == TRUE

\* variant: the loop over the rows ends at the first row that fails
LoopEnds_break(row, rows, ok) == row >= rows \/ ~ok

\* `for row in ...itertuples()`: whether the row just handled was the last one;
\* a failed row is logged and the loop goes on
LoopEnds(row, rows, ok) == row >= rows

\* variant: the pillars of a city are analysed before its questions
TierOrder_pillars_first == <<"P_view", "Q_view", "C_view">>

\* the three awaits of the loop body over cities, in their order:
\* analyze_PillarQuestions, analyze_cityPillar, analyze_city
TierOrder == <<"Q_view", "P_view", "C_view">>

\* `except Exception ... continue` of the loop over cities, and its end
\* variant: a run whose last loop had no successful entity returns False
GoNextCity_needs_success(r) ==
    IF r.city < r.ncities
    THEN [r EXCEPT !.city = @ + 1, !.pc = TierOrder[1], !.pillar = 0, !.row = 0]
    ELSE [r EXCEPT !.pc = "finished", !.pillar = 0, !.row = 0,
                   !.ret = IF \E i \in 1..Len(entityStatus.st) : entityStatus.st[i] = "success"
                           THEN "True" ELSE "False"]

GoNextCity(r) ==
    IF r.city < r.ncities
    THEN [r EXCEPT !.city = @ + 1, !.pc = TierOrder[1], !.pillar = 0, !.row = 0]
    ELSE [r EXCEPT !.pc = "finished", !.ret = "True", !.pillar = 0, !.row = 0]

\* the entry points of the batch runner
Entries == {"analyze_all_cities_questions", "analyze_single_City", "analyze_city_pillars",
    "analyze_questions_of_city_pillar"}
\* the tier function an entry point awaits first for a city
FirstView(entry) ==
    IF entry = "analyze_all_cities_questions" THEN TierOrder[1]
    ELSE IF entry = "analyze_single_City" THEN "C_view"
    ELSE IF entry = "analyze_city_pillars" THEN "P_view"
    ELSE "Q_view"

\* a tier's function has returned: in the full batch the next await of the loop
\* body, or the next city after the last one; in the other entry points the
\* loop over the one city ends and the entry point returns True
AfterTier(view, r) ==
    LET i == CHOOSE k \in 1..Len(TierOrder) : TierOrder[k] = view
    IN  IF r.entry # "analyze_all_cities_questions"
        THEN [r EXCEPT !.pc = "finished", !.ret = "True", !.pillar = 0, !.row = 0]
        ELSE IF i < Len(TierOrder) THEN [r EXCEPT !.pc = TierOrder[i + 1]]
        ELSE GoNextCity(r)

\* variant: the full batch has no handler around the tiers of a city
TierRaised_propagate(r) == [r EXCEPT !.pc = "finished", !.ret = "raised", !.pillar = 0, !.row = 0]

\* a tier's function has raised: the full batch logs it and goes on with the
\* next city; the other entry points log it and raise
TierRaised(r) ==
    IF r.entry = "analyze_all_cities_questions" THEN GoNextCity(r)
    ELSE [r EXCEPT !.pc = "finished", !.ret = "raised", !.pillar = 0, !.row = 0]

\* variant: a Cities query that raised is taken for an empty city list
AfterCitiesQuery_swallow(r, entry, n, np) ==
    IF n <= 0 THEN [r EXCEPT !.pc = "finished", !.entry = entry, !.ncities = n,
                             !.ret = "False"]
    ELSE [r EXCEPT !.pc = FirstView(entry), !.entry = entry, !.ncities = n,
                   !.npillars = np, !.city = 1]

\* the Cities query of an entry point has raised (n = -1), found no city, or
\* found n cities: the handler logs and raises, the entry point returns
\* False, or the loop over the cities starts
AfterCitiesQuery(r, entry, n, np) ==
    IF n = -1 THEN [r EXCEPT !.pc = "finished", !.entry = entry, !.ncities = n,
                             !.ret = "raised"]
    ELSE IF n = 0 THEN [r EXCEPT !.pc = "finished", !.entry = entry, !.ret = "False"]
    ELSE [r EXCEPT !.pc = FirstView(entry), !.entry = entry, !.ncities = n,
                   !.npillars = np, !.city = 1]

\* an entry point is called and makes its Cities query; np pillar ids will be
\* iterated by analyze_PillarQuestions
StartEntry(starts) ==
    /\ run.pc = "idle"
    /\ \E start \in starts : run' = AfterCitiesQuery(run, start[1], start[2], start[3])
    /\ upsertCall' = NoCall
    /\ UNCHANGED <<llm_initialized, call, result, lastResp, questionList, pillarList,
                   pillarSourceList, cityList, entityStatus>>
    /\ UNCHANGED <<llm, tasks, scan>>

\* the tally of a counted run at the end of a loop body: one more row iterated,
\* and the engine invocations its orchestrator call made
Tally(r) ==
    IF r.counted THEN [r EXCEPT !.iterated = @ + 1, !.invoked = @ + call.invocations]
    ELSE r

\* analyze_all_cities_questions is called: up to NumCities cities, every pillar
BatchStarts == {<<"analyze_all_cities_questions", n, NumPillars>> :
    n \in {-1} \cup (0..NumCities)}
StartRun == StartEntry(BatchStarts)

\* analyze_PillarQuestions: get_view_data("vw_CityPillarQuestionEvaluations"),
\* which raises, has no row, or has nq rows for each pillar
QuestionViewOf(nq) ==
    /\ run.pc = "Q_view"
    /\ \E o \in {"raise", "empty", "rows"} :
        /\ run' = IF o = "raise" THEN TierRaised(run)
                  ELSE IF o = "empty" THEN AfterTier("Q_view", run)
                  ELSE [run EXCEPT !.pc = "Q_row", !.pillar = 1, !.row = 1]
        /\ entityStatus' = [tier |-> "question",
                            rows |-> IF o = "rows" THEN nq ELSE 0, st |-> <<>>]
    /\ questionList' = <<>>
    /\ upsertCall' = NoCall
    /\ UNCHANGED <<llm_initialized, call, result, lastResp, pillarList, pillarSourceList,
                   cityList>>
    /\ UNCHANGED <<llm, tasks, scan>>

QuestionView == QuestionViewOf(NumQuestions)

\* the loop body up to `await research_and_score_question(...)`
QuestionStart ==
    /\ run.pc = "Q_row"
    /\ LET b == Begin([NewCall("question", EvaluatorScore(NormalizedValueOf(run.row)), TRUE)
                         EXCEPT !.scoreProgress = ScoreProgressOf(run.row)])
       IN  call' = b.call /\ result' = b.result
    /\ run' = [run EXCEPT !.pc = "Q_wait"]
    /\ entityStatus' = IF run.row = 1 THEN [entityStatus EXCEPT !.st = <<>>]
                       ELSE entityStatus
    /\ upsertCall' = NoCall
    /\ UNCHANGED <<llm_initialized, lastResp, questionList, pillarList, pillarSourceList,
                   cityList>>
    /\ UNCHANGED <<llm, tasks, scan>>

\* `for pillarId in pillarIds`: the next pillar, or the return after the last
NextPillar(r) ==
    IF r.pillar < r.npillars THEN [r EXCEPT !.pc = "Q_row", !.pillar = @ + 1, !.row = 1]
    ELSE AfterTier("Q_view", r)

\* the rest of the loop body; after the last row of the pillar, the flush of
\* questionList and the step to the next pillar
QuestionConsume ==
    /\ run.pc = "Q_wait" /\ call.pc = "returned"
    /\ LET ok == result.success /\ ~result.raised
           list == IF ok THEN Append(questionList,
                                     QuestionRow(run.city, run.pillar, run.row, result.out))
                   ELSE questionList
           st == [entityStatus EXCEPT !.st = Append(@, IF ok THEN "success"
                                                        ELSE result.error.exc)]
           escapes == result.raised /\ ~RowHandled(result.error.exc)
       IN  IF escapes
           THEN \* the handler of the loop over the pillars logs it
                /\ questionList' = <<>>
                /\ entityStatus' = st
                /\ run' = NextPillar(Tally(run))
                /\ upsertCall' = NoCall
           ELSE IF ~LoopEnds(run.row, entityStatus.rows, ok)
           THEN /\ questionList' = list
                /\ entityStatus' = st
                /\ run' = [Tally(run) EXCEPT !.pc = "Q_row", !.row = @ + 1]
                /\ upsertCall' = NoCall
           ELSE /\ \E stored \in BOOLEAN :
                    upsertCall' = IF Len(list) > 0
                                  THEN [kind |-> "question", rows |-> list,
                                        sources |-> <<>>, raised |-> ~stored]
                                  ELSE NoCall
                /\ run' = NextPillar(Tally(run))
                /\ questionList' = <<>>
                /\ entityStatus' = st
    /\ call' = IdleCall
    /\ result' = NoResult
    /\ lastResp' = NoResp
    /\ UNCHANGED <<llm_initialized, pillarList, pillarSourceList, cityList>>
    /\ UNCHANGED <<llm, tasks, scan>>

\* analyze_cityPillar: get_view_data("vw_AiCityPillarEvaluation")
PillarView ==
    /\ run.pc = "P_view"
    /\ \E o \in {"raise", "empty", "rows"} :
        /\ run' = IF o = "raise" THEN TierRaised(run)
                  ELSE IF o = "empty" THEN AfterTier("P_view", run)
                  ELSE [run EXCEPT !.pc = "P_row", !.row = 1]
        /\ entityStatus' = [tier |-> "pillar",
                            rows |-> IF o = "rows" THEN NumPillars ELSE 0, st |-> <<>>]
    /\ pillarList' = <<>>
    /\ pillarSourceList' = <<>>
    /\ upsertCall' = NoCall
    /\ UNCHANGED <<llm_initialized, call, result, lastResp, questionList, cityList>>
    /\ UNCHANGED <<llm, tasks, scan>>

\* the loop body up to `await research_and_score_pillar(...)`
PillarStart ==
    /\ run.pc = "P_row"
    /\ LET b == Begin(NewCall("pillar", EvaluatorProgressOf(run.row), TRUE))
       IN  call' = b.call /\ result' = b.result
    /\ run' = [run EXCEPT !.pc = "P_wait"]
    /\ upsertCall' = NoCall
    /\ UNCHANGED <<llm_initialized, lastResp, questionList, pillarList, pillarSourceList,
                   cityList, entityStatus>>
    /\ UNCHANGED <<llm, tasks, scan>>

\* the rest of the loop body; after the last row, the flush of both buffers
PillarConsume ==
    /\ run.pc = "P_wait" /\ call.pc = "returned"
    /\ LET got == result.success /\ ~result.raised
           l == result.out["sources"].l
           ok == got /\ FirstBad(l) > Len(l)
           srcs == IF got THEN pillarSourceList \o Flattened(run.city, run.row, l)
                   ELSE pillarSourceList
           list == IF ok THEN Append(pillarList, PillarRow(run.city, run.row, result.out))
                   ELSE pillarList
           exc == IF got /\ ~ok THEN "KeyError"
                  ELSE IF result.raised THEN result.error.exc ELSE "none"
           escapes == exc # "none" /\ ~RowHandled(exc)
           done == escapes \/ LoopEnds(run.row, NumPillars, ok)
           st == [entityStatus EXCEPT !.st = Append(@, IF ok THEN "success"
                                                        ELSE IF got THEN "KeyError"
                                                        ELSE result.error.exc)]
       IN  /\ pillarList' = IF done THEN <<>> ELSE list
           /\ pillarSourceList' = IF done THEN <<>> ELSE srcs
           /\ entityStatus' = st
           /\ IF escapes
              THEN /\ run' = TierRaised(Tally(run))
                   /\ upsertCall' = NoCall
              ELSE IF ~done
              THEN /\ run' = [Tally(run) EXCEPT !.pc = "P_row", !.row = @ + 1]
                   /\ upsertCall' = NoCall
              ELSE IF Len(list) > 0
              THEN \E stored \in BOOLEAN :
                   /\ upsertCall' = [kind |-> "pillar", rows |-> list, sources |-> srcs,
                                     raised |-> ~stored]
                   /\ run' = IF stored THEN AfterTier("P_view", Tally(run))
                             ELSE TierRaised(Tally(run))
              ELSE /\ upsertCall' = NoCall
                   /\ run' = AfterTier("P_view", Tally(run))
    /\ call' = IdleCall
    /\ result' = NoResult
    /\ lastResp' = NoResp
    /\ UNCHANGED <<llm_initialized, questionList, cityList>>
    /\ UNCHANGED <<llm, tasks, scan>>

\* analyze_city: get_view_data("vw_CityEvaluations")
CityView ==
    /\ run.pc = "C_view"
    /\ \E o \in {"raise", "empty", "rows"} :
        /\ run' = IF o = "raise" THEN TierRaised(run)
                  ELSE IF o = "empty" THEN AfterTier("C_view", run)
                  ELSE [run EXCEPT !.pc = "C_row", !.row = 1]
        /\ entityStatus' = [tier |-> "city",
                            rows |-> IF o = "rows" THEN NumCityRows ELSE 0, st |-> <<>>]
    /\ cityList' = <<>>
    /\ upsertCall' = NoCall
    /\ UNCHANGED <<llm_initialized, call, result, lastResp, questionList, pillarList,
                   pillarSourceList>>
    /\ UNCHANGED <<llm, tasks, scan>>

\* the loop body up to `await research_and_score_city(...)`; row.PillarWithScores
\* is a text or None
CityStart ==
    /\ run.pc = "C_row"
    /\ \E ctx \in BOOLEAN :
        LET b == Begin(NewCall("city", EvaluatorProgressOf(run.city), ctx))
        IN  call' = b.call /\ result' = b.result
    /\ run' = [run EXCEPT !.pc = "C_wait"]
    /\ upsertCall' = NoCall
    /\ UNCHANGED <<llm_initialized, lastResp, questionList, pillarList, pillarSourceList,
                   cityList, entityStatus>>
    /\ UNCHANGED <<llm, tasks, scan>>

\* the rest of the loop body; after the last row, the flush of cityList; then the
\* loop over cities goes on
CityConsume ==
    /\ run.pc = "C_wait" /\ call.pc = "returned"
    /\ LET ok == result.success /\ ~result.raised
           list == IF ok THEN Append(cityList, CityRow(run.city, result.out)) ELSE cityList
           escapes == result.raised /\ ~RowHandled(result.error.exc)
           done == escapes \/ LoopEnds(run.row, NumCityRows, ok)
           st == [entityStatus EXCEPT !.st = Append(@, IF ok THEN "success"
                                                        ELSE result.error.exc)]
       IN  /\ cityList' = IF done THEN <<>> ELSE list
           /\ entityStatus' = st
           /\ IF escapes
              THEN /\ run' = TierRaised(Tally(run))
                   /\ upsertCall' = NoCall
              ELSE IF ~done
              THEN /\ run' = [Tally(run) EXCEPT !.pc = "C_row", !.row = @ + 1]
                   /\ upsertCall' = NoCall
              ELSE IF Len(list) > 0
              THEN \E stored \in BOOLEAN :
                   /\ upsertCall' = [kind |-> "city", rows |-> list, sources |-> <<>>,
                                     raised |-> ~stored]
                   /\ run' = IF stored THEN AfterTier("C_view", Tally(run))
                             ELSE TierRaised(Tally(run))
              ELSE /\ upsertCall' = NoCall
                   /\ run' = AfterTier("C_view", Tally(run))
    /\ call' = IdleCall
    /\ result' = NoResult
    /\ lastResp' = NoResp
    /\ UNCHANGED <<llm_initialized, questionList, pillarList, pillarSourceList>>
    /\ UNCHANGED <<llm, tasks, scan>>

\* the orchestrators under any caller
Next ==
    \/ Call \/ Return
    \/ InitAttempt \/ InitDelay \/ EngineReturn \/ Delay

Spec == Init /\ [][Next]_vars

\* a batch run
NextBatch ==
    \/ StartRun
    \/ QuestionView \/ QuestionStart \/ QuestionConsume
    \/ PillarView \/ PillarStart \/ PillarConsume
    \/ CityView \/ CityStart \/ CityConsume
    \/ InitAttempt \/ InitDelay \/ BatchEngineReturn \/ Delay

SpecBatch == Init /\ [][NextBatch]_vars

(* ------------------ the entry points, run for one city ---------------- *)
\* an entry point is called with a city id: analyze_all_cities_questions runs
\* the three tiers of the city, the others one tier;
\* analyze_questions_of_city_pillar iterates every pillar of the city, or the
\* one pillar whose id it was given
ScopedStarts ==
    {<<entry, n, NumPillars>> : entry \in Entries, n \in {-1, 0, 1}}
    \cup {<<"analyze_questions_of_city_pillar", 1, 1>>}
StartScoped == StartEntry(ScopedStarts)

\* a pillar of the view has NumScopedQuestions questions
ScopedQuestionView == QuestionViewOf(NumScopedQuestions)

\* the chain raises or answers a valid object; a pillar's object may carry a
\* source entry that lacks a key
ScopedResponsesOf == [tier \in Tiers |->
    {Raise("ConnectionError"), Text(TRUE, TRUE, Base(tier))}
    \cup (IF tier = "pillar"
          THEN {Text(TRUE, TRUE, [Base(tier) EXCEPT !["sources"] =
                    ListV(<<[SourceEntry(IntV(4)) EXCEPT !["source_url"] = Absent]>>)])}
          ELSE {})]
ScopedEngineReturn == EngineInvoke(ScopedResponsesOf[call.tier])

NextScoped ==
    \/ StartScoped
    \/ ScopedQuestionView \/ QuestionStart \/ QuestionConsume
    \/ PillarView \/ PillarStart \/ PillarConsume
    \/ CityView \/ CityStart \/ CityConsume
    \/ InitAttempt \/ InitDelay \/ ScopedEngineReturn

SpecScoped == Init /\ [][NextScoped]_vars

(* ------------------- the full batch run, with its tally ---------------- *)
\* analyze_all_cities_questions(city_id) is called: the Cities query raises or
\* gives no city or one; the rows the loops of the run iterate and the engine
\* invocations made for them are tallied
CountedStarts == {<<"analyze_all_cities_questions", n, NumPillars>> : n \in {-1, 0, 1}}
StartCounted ==
    /\ run.pc = "idle"
    /\ \E start \in CountedStarts :
           run' = AfterCitiesQuery([run EXCEPT !.counted = TRUE],
                                   start[1], start[2], start[3])
    /\ upsertCall' = NoCall
    /\ UNCHANGED <<llm_initialized, call, result, lastResp, questionList, pillarList,
                   pillarSourceList, cityList, entityStatus>>
    /\ UNCHANGED <<llm, tasks, scan>>

\* the chain raises, answers a text without an object (a failure that is
\* retried), or answers a valid object
CountedResponsesOf == [tier \in Tiers |->
    {Raise("ConnectionError"), Text(FALSE, FALSE, EmptyPayload), Text(TRUE, TRUE, Base(tier))}]
CountedEngineReturn == EngineInvoke(CountedResponsesOf[call.tier])

\* a run over one city with its tally, or a run over every city without
NextCounted ==
    \/ StartCounted \/ StartRun
    \/ QuestionView \/ QuestionStart \/ QuestionConsume
    \/ PillarView \/ PillarStart \/ PillarConsume
    \/ CityView \/ CityStart \/ CityConsume
    \/ InitAttempt \/ InitDelay \/ CountedEngineReturn \/ Delay

\* Every step of a run is a step of the one coroutine that runs it: a
\* synchronous stretch of code, or an await on the chain, on the store or on
\* asyncio.sleep, each of which returns or raises. A step that can be taken is
\* therefore taken.
FairCounted == Init /\ [][NextCounted]_vars /\ WF_vars(NextCounted)

(* ------------- background runs started through the router ------------- *)
\* Each analysis endpoint wraps an entry point in asyncio.create_task and
\* answers at once; the tasks share the event loop and the one research
\* service.  A task runs without interruption from one await to the next:
\* the awaits are chain.ainvoke and the two asyncio.sleep of the retry loops.
\* The requests are for one city, so the runs iterate the same entity rows.
runVars == <<call, result, lastResp, run, questionList, pillarList, pillarSourceList,
    cityList, upsertCall, entityStatus>>

\* the answers of the chain to a task's invocation
TaskResponses ==
    {Raise("ConnectionError"), Text(FALSE, FALSE, EmptyPayload),
     Text(TRUE, TRUE, Base("question"))}

\* _ensure_initialized and initialize up to their first await, for a task that
\* is at attempt `attempt` of the initialization loop: `created` tells whether
\* llm_factory.create_llm() returns a handle.  Gives the task, the flag and
\* the handle; "failed" stands for the RuntimeError after the last attempt.
TryCreate(task, attempt, created) ==
    IF created
    THEN [task |-> [task EXCEPT !.pc = "inflight", !.attempt = 0, !.initAttempt = attempt],
          initialized |-> TRUE, llm |-> llm + 1]
    ELSE IF MoreAttempts(attempt)
    THEN [task |-> [task EXCEPT !.pc = "initSleep", !.initAttempt = attempt],
          initialized |-> llm_initialized, llm |-> llm]
    ELSE [task |-> [task EXCEPT !.pc = "failed", !.initAttempt = attempt],
          initialized |-> llm_initialized, llm |-> llm]

\* the orchestrator is called for an entity row: `if not self._initialized or
\* self.llm is None: await self.initialize()`, then the first chain.ainvoke
Enter(task, entity, created) ==
    LET t == [task EXCEPT !.entity = entity, !.attempt = 0, !.initAttempt = 0]
    IN  IF llm_initialized /\ llm # 0
        THEN [task |-> [t EXCEPT !.pc = "inflight"], initialized |-> llm_initialized,
              llm |-> llm]
        ELSE TryCreate(t, 0, created)

\* the row loop after an entity has ended in success or failure
NextEntity(task, created) ==
    IF task.entity < NumTaskEntities THEN Enter(task, task.entity + 1, created)
    ELSE [task |-> [task EXCEPT !.pc = "done"], initialized |-> llm_initialized,
          llm |-> llm]

\* what a step of task t leaves behind
TaskStep(t, n) ==
    /\ tasks' = [tasks EXCEPT ![t] = n.task]
    /\ llm_initialized' = n.initialized
    /\ llm' = n.llm
    /\ UNCHANGED <<scan, runVars>>

\* an analysis request arrives: the endpoint creates the task, which runs up
\* to its first await
Request ==
    \E t \in 1..NumTasks, created \in BOOLEAN :
        /\ tasks[t].pc = "none"
        /\ TaskStep(t, Enter(tasks[t], 1, created))

\* asyncio.sleep(retry_delay) of initialize is over: the next create_llm()
TaskInitDelay ==
    \E t \in 1..NumTasks, created \in BOOLEAN :
        /\ tasks[t].pc = "initSleep"
        /\ TaskStep(t, TryCreate(tasks[t], tasks[t].initAttempt + 1, created))

\* the RuntimeError of initialize has made the orchestrator return a failure:
\* the row is logged and the loop goes on (the same uninterrupted run of the
\* task as the failed attempt; a step of its own for the outcome of the next
\* create_llm(), which follows a fresh test of the flag)
TaskInitFailed ==
    \E t \in 1..NumTasks, created \in BOOLEAN :
        /\ tasks[t].pc = "failed"
        /\ TaskStep(t, NextEntity(tasks[t], created))

\* chain.ainvoke of task t returns or raises
TaskEngineReturn ==
    \E t \in 1..NumTasks, resp \in TaskResponses, created \in BOOLEAN :
        /\ tasks[t].pc = "inflight"
        /\ LET a == Attempt("question", resp, Null)
           IN  IF a.exc # "none" /\ Retried(a.exc) /\ MoreAttempts(tasks[t].attempt)
               THEN TaskStep(t, [task |-> [tasks[t] EXCEPT !.pc = "sleep"],
                                 initialized |-> llm_initialized, llm |-> llm])
               ELSE TaskStep(t, NextEntity(tasks[t], created))

\* asyncio.sleep(retry_delay) of the retry loop is over: the next chain.ainvoke
TaskDelay ==
    \E t \in 1..NumTasks :
        /\ tasks[t].pc = "sleep"
        /\ TaskStep(t, [task |-> [tasks[t] EXCEPT !.pc = "inflight", !.attempt = @ + 1],
                         initialized |-> llm_initialized, llm |-> llm])

NextTasks == Request \/ TaskInitDelay \/ TaskInitFailed \/ TaskEngineReturn \/ TaskDelay

SpecTasks == Init /\ [][NextTasks]_vars

(* ------------------ the cleaning of an engine response ----------------- *)
otherVars == <<llm_initialized, llm, tasks, runVars>>

\* the texts of up to n characters of an alphabet
TextsUpTo(alphabet, n) == UNION {[1..k -> alphabet] : k \in 0..n}

\* what the engine may write between the quotes of a string: characters, raw
\* control characters, escape sequences, typographic characters
Units == {<<"a">>, <<NL>>, <<BS, BS>>, <<BS, "n">>, <<EN_DASH>>, <<LDQUO>>}
Contents == {Concat(us) : us \in TextsUpTo(Units, MaxUnits)}
Keys == {<<"k">>, <<BS, BS>>}
\* the text of an object with one member
ObjectText(key, value) == <<"{", DQ>> \o key \o <<DQ, ":", DQ>> \o value \o <<DQ, "}">>
Objects == {ObjectText(key, value) : key \in Keys, value \in Contents}

\* prose before and after, with or without braces of its own, and the fences
Leads == {<<>>, <<"x", ":", NL>>, <<"x", "{", "x", "}", NL>>}
Trails == {<<>>, <<NL, "x">>, <<NL, "{", "x", "}">>}
Fences == {<<>>, <<FENCE, NL>>, <<FENCE, LANG_json, NL>>, <<FENCE, "python", NL>>}
Wrap(lead, fence, object, trail) ==
    lead \o fence \o object \o (IF fence = <<>> THEN <<>> ELSE <<NL, FENCE>>) \o trail
\* responses without a brace pair
Braceless == {<<>>, <<"x">>, <<"x", "{", "x">>, <<"x", "}">>, <<FENCE, LANG_json, NL, FENCE>>}

\* the chain has answered: _clean_json_response runs up to its first
\* json.loads; when that fails the repair scan starts
Clean ==
    /\ scan.pc = "idle"
    /\ \E object \in Objects \cup {<<>>} :
       \E response \in IF object = <<>> THEN Braceless
                       ELSE {Wrap(l, f, object, t) : l \in Leads, f \in Fences, t \in Trails} :
        LET x == Extract(response)
            s == [scan EXCEPT !.source = "clean", !.response = response, !.object = object]
        IN  scan' = IF ~x.found
                    THEN [s EXCEPT !.pc = "done", !.exc = "ValueError", !.kind = "extraction"]
                    ELSE IF JsonLoads(x.json_str).ok
                    THEN [s EXCEPT !.pc = "done", !.text = x.json_str]
                    ELSE [s EXCEPT !.pc = "scan", !.fix = FixStart(x.json_str)]
    /\ UNCHANGED otherVars

\* _fix_json_escaping is applied to a text of its own
ScanAlphabet == {DQ, BS, SQ, "n", "x", NL}
Repair ==
    /\ scan.pc = "idle"
    /\ \E json_str \in TextsUpTo(ScanAlphabet, MaxScanLen) :
        scan' = [scan EXCEPT !.pc = "scan", !.source = "repair", !.response = json_str,
                             !.fix = FixStart(json_str)]
    /\ UNCHANGED otherVars

\* one pass of the loop of _fix_json_escaping
ScanStep ==
    /\ scan.pc = "scan"
    /\ scan.fix.i <= Len(scan.fix.json_str)
    /\ scan' = [scan EXCEPT !.fix = FixStep(scan.fix)]
    /\ UNCHANGED otherVars

\* the loop is over: ''.join(result), and in _clean_json_response the second
\* json.loads
ScanEnd ==
    /\ scan.pc = "scan"
    /\ scan.fix.i > Len(scan.fix.json_str)
    /\ scan' = IF scan.source = "clean" /\ ~JsonLoads(scan.fix.result).ok
               THEN [scan EXCEPT !.pc = "done", !.exc = "ValueError", !.kind = "decode"]
               ELSE [scan EXCEPT !.pc = "done", !.text = scan.fix.result]
    /\ UNCHANGED otherVars

NextText == Clean \/ Repair \/ ScanStep \/ ScanEnd

SpecText == Init /\ [][NextText]_vars

(* ====================================================================== *)
(*                     Properties of the orchestrators                    *)
(* ====================================================================== *)
\* what the latest attempt of the call in progress came to
Latest == Attempt(call.tier, lastResp, call.evaluator)
\* the failures the retry loop is there for: no object in the text, text that
\* does not parse, a required field missing, a number out of range
ParseFailureKinds == {"extraction", "decode", "missing", "range"}
Answered == lastResp.kind # "none"
Parsed == lastResp.kind = "text" /\ lastResp.braces /\ lastResp.parses

\* the fields the data model lists for each tier's result
DataModelFields(tier) ==
    IF tier = "question"
    THEN {"ai_score", "ai_progress", "confidence_level", "evidence_summary", "red_flag",
          "geographic_equity_note", "data_sources_count", "source_type", "source_name",
          "source_url", "source_data_year", "source_trust_level", "source_data_extract"}
    ELSE IF tier = "pillar"
    THEN {"ai_score", "ai_progress", "confidence_level", "evidence_summary", "red_flag",
          "geographic_equity_note", "institutional_assessment", "data_gap_analysis"}
    ELSE {"ai_score", "ai_progress", "confidence_level", "evidence_summary",
          "cross_pillar_patterns", "institutional_capacity", "equity_assessment",
          "sustainability_outlook", "strategic_recommendation", "data_transparency_note"}
Lacking(fields, p) == {f \in fields : p[f].t = "absent"}

\* C1: a call invokes the engine at most 3 times; when all 3 attempts fail with
\* an extraction, JSON-decode or schema-validation error the call ends as a
\* failure carrying the error of the 3rd attempt, and there is no 4th
\* invocation.
C1_AtMostThreeInvocations ==
    /\ call.invocations <= 3
    /\ call.invocations = 3 => call.pc = "returned"
    /\ (/\ call.pc = "returned" /\ call.invocations = 3
        /\ call.parseOnly /\ lastResp.kind = "text"
        /\ Latest.kind \in ParseFailureKinds)
       => /\ result.present /\ ~result.success /\ ~result.raised
          /\ result.error = [exc |-> Latest.exc, kind |-> Latest.kind,
                             field |-> Latest.field]

\* a call that ended after three parse failures
C1_Witness ==
    /\ call.pc = "returned" /\ call.invocations = 3 /\ call.delays = 2
    /\ call.parseOnly /\ lastResp.kind = "text"
    /\ Latest.kind = "range" /\ Latest.field = "ai_score"
    /\ ~result.success /\ result.error.field = "ai_score"

\* C2 (as claimed): an attempt that fails with an exception other than an
\* extraction, JSON-decode or schema-validation error ends the call in failure
\* at once: the call neither sleeps nor invokes the engine again.
C2_OtherExceptionEndsCall ==
    (Answered /\ Latest.exc # "none" /\ Latest.kind \notin ParseFailureKinds)
        => /\ call.pc = "returned"
           /\ result.present /\ ~result.success

\* C3 (as claimed): when the attempts before the k-th each failed with a
\* parse failure and the k-th answer is a valid result of the tier, the call
\* returns success with the fields of that answer after exactly k invocations
\* and k-1 delays; a parse failure ends the call only on the 3rd attempt.
ValidResult(tier, resp) ==
    /\ resp.kind = "text" /\ resp.braces /\ resp.parses
    /\ Lacking(DataModelFields(tier), resp.payload) = {}
    /\ RangeCheck(resp.payload["ai_score"], 0, 4000) = "true"
    /\ RangeCheck(resp.payload["ai_progress"], 0, 100000) = "true"
    /\ resp.payload["confidence_level"] \in ConfidenceLevels
    /\ tier = "question" => RangeCheck(resp.payload["source_trust_level"], 1000, 7000) = "true"
    /\ tier = "pillar" => (/\ resp.payload["sources"].t = "list"
                           /\ Len(resp.payload["sources"].l) >= 1
                           /\ \A i \in 1..Len(resp.payload["sources"].l) :
                                 Complete(resp.payload["sources"].l[i]))

C3_SuccessAfterRetries ==
    /\ (call.pc \in {"invoke", "sleep"} \/ (call.pc = "returned" /\ Answered)) =>
          /\ call.invocations = call.attempt + (IF call.pc = "invoke" THEN 0 ELSE 1)
          /\ call.delays = call.attempt
    /\ (call.pc = "returned" /\ call.parseOnly /\ ValidResult(call.tier, lastResp))
       => /\ result.present /\ result.success
          /\ \A f \in DataModelFields(call.tier) : result.out[f] = lastResp.payload[f]
    /\ (call.pc = "returned" /\ lastResp.kind = "text"
        /\ Latest.kind \in ParseFailureKinds)
       => call.attempt = 2

\* C4: every orchestrator call hands its caller a record with success=true or
\* a record with success=false and an error; no exception leaves the call.
C4_NeverRaises ==
    call.pc = "returned"
        => /\ result.present /\ ~result.raised
           /\ result.success \/ result.error.exc # "none"

\* a city call without pillars_context, ended as a failure record
C4_Witness ==
    /\ call.pc = "returned" /\ call.tier = "city" /\ ~call.ctx
    /\ result.present /\ ~result.success /\ result.error.exc = "TypeError"

(* ====================================================================== *)
(*                      Properties of the batch runner                    *)
(* ====================================================================== *)
\* the indices of the rows that succeeded, in order
SuccessIdx(st) ==
    LET Succeeded(i) == st[i] = "success"
    IN  SelectSeq([i \in 1..Len(st) |-> i], Succeeded)
QuestionIDs(rows) == [i \in 1..Len(rows) |-> rows[i].QuestionID]
PillarIDs(rows) == [i \in 1..Len(rows) |-> rows[i].PillarID]
\* no loop over the rows of a view is under way
BetweenLoops ==
    /\ run.pc \notin {"Q_wait", "P_wait", "C_wait"}
    /\ run.pc \in {"Q_row", "P_row", "C_row"} => run.row = 1

\* C5 (as claimed): in the Question tier and the Pillar tier a failed entity
\* never keeps a later sibling from being researched, and the records buffered and
\* flushed (evaluation rows and pillar source rows) are exactly those of the
\* entities that succeeded; the run reports success.
C5_FaultIsolation ==
    /\ (entityStatus.tier \in {"question", "pillar"} /\ BetweenLoops)
       => Len(entityStatus.st) \in {0, entityStatus.rows}
    /\ (run.pc = "Q_wait" \/ (run.pc = "Q_row" /\ run.row > 1))
       => QuestionIDs(questionList) = SuccessIdx(entityStatus.st)
    /\ run.pc \in {"P_row", "P_wait"}
       => PillarIDs(pillarList) = SuccessIdx(entityStatus.st)
    /\ upsertCall.kind = "question"
       => /\ QuestionIDs(upsertCall.rows) = SuccessIdx(entityStatus.st)
          /\ Len(entityStatus.st) = NumQuestions
    /\ upsertCall.kind = "pillar"
       => /\ PillarIDs(upsertCall.rows) = SuccessIdx(entityStatus.st)
          /\ Len(entityStatus.st) = NumPillars
          /\ Range(PillarIDs(upsertCall.sources)) \subseteq Range(SuccessIdx(entityStatus.st))
    /\ run.pc \in {"P_row", "P_wait"}
       => Range(PillarIDs(pillarSourceList)) \subseteq Range(SuccessIdx(entityStatus.st))
    /\ (run.pc = "finished" /\ run.ncities >= 1
        /\ run.entry = "analyze_all_cities_questions") => run.ret = "True"

\* C6: every record passed to a bulk upsert, and every buffered record, has
\* AIScore in [0, 4] and AIProgress in [0, 100]; a payload with ai_score or
\* ai_progress out of range is rejected by the validator of every tier.
InRange(r) ==
    /\ 0 <= r.AIScore /\ r.AIScore <= 4000
    /\ 0 <= r.AIProgress /\ r.AIProgress <= 100000
AllInRange(rows) == \A i \in 1..Len(rows) : InRange(rows[i])
OutOfRange(p) ==
    \/ p["ai_score"].t # "absent" /\ ~(IsNumber(p["ai_score"])
          /\ 0 <= Milli(p["ai_score"]) /\ Milli(p["ai_score"]) <= 4000)
    \/ p["ai_progress"].t # "absent" /\ ~(IsNumber(p["ai_progress"])
          /\ 0 <= Milli(p["ai_progress"]) /\ Milli(p["ai_progress"]) <= 100000)

C6_ScoresInRange ==
    /\ AllInRange(upsertCall.rows)
    /\ AllInRange(questionList) /\ AllInRange(pillarList) /\ AllInRange(cityList)
    /\ (Parsed /\ OutOfRange(lastResp.payload))
       => /\ Validate(call.tier, lastResp.payload).exc # "none"
          /\ ~result.success

\* a pillar payload out of range has just been rejected while rows are buffered
C6_Witness ==
    /\ run.pc = "P_wait" /\ Len(pillarList) >= 1
    /\ Parsed /\ OutOfRange(lastResp.payload) /\ call.pc = "sleep"

\* C7 (as claimed): every source citation that reaches a bulk upsert has a
\* trust level in 1..7: the SourceTrustLevel of a question record and the
\* TrustLevel of a pillar source row.
C7_TrustLevelsInRange ==
    /\ upsertCall.kind = "question"
       => \A i \in 1..Len(upsertCall.rows) : upsertCall.rows[i].SourceTrustLevel \in 1..7
    /\ upsertCall.kind = "pillar"
       => \A i \in 1..Len(upsertCall.sources) : upsertCall.sources[i].TrustLevel \in 1..7

\* C8 (as claimed): at every tier a confidence_level outside High, Medium, Low
\* is replaced by "Medium"; every successful result and every persisted record
\* has a confidence level among the three.
C8_ConfidenceNormalized ==
    /\ (call.pc = "returned" /\ result.success)
       => result.out["confidence_level"] \in ConfidenceLevels
    /\ \A i \in 1..Len(upsertCall.rows) :
          upsertCall.rows[i].ConfidenceLevel \in ConfidenceLevels

\* C9 (as claimed): a pillar payload with valid score and progress whose
\* `sources` is absent, not a list or an empty list is accepted, with the one
\* placeholder entry as its sources.
SourcesUnusable(v) == v.t # "list" \/ Len(v.l) = 0
C9_SourcesNeverFailValidation ==
    (/\ Parsed /\ call.tier = "pillar"
     /\ \A f \in {"ai_score", "ai_progress", "confidence_level", "evidence_summary"} :
           lastResp.payload[f].t # "absent"
     /\ ~OutOfRange(lastResp.payload)
     /\ SourcesUnusable(lastResp.payload["sources"]))
    => /\ _validate_pillar_response(lastResp.payload).exc = "none"
       /\ _validate_pillar_response(lastResp.payload).data["sources"] = ListV(<<Placeholder>>)

\* C10 (as claimed): validation fails, naming the field, whenever the payload
\* lacks any field that the data model lists for the tier's result, and such a
\* payload never produces a success.
C10_EveryModelFieldRequired ==
    (Parsed /\ Lacking(DataModelFields(call.tier), lastResp.payload) # {})
    => /\ Validate(call.tier, lastResp.payload).exc = "ValueError"
       /\ Validate(call.tier, lastResp.payload).kind = "missing"
       /\ Validate(call.tier, lastResp.payload).field
             \in Lacking(DataModelFields(call.tier), lastResp.payload)
       /\ ~result.success

\* C10 (amended): validation fails, naming a missing field, whenever the payload
\* lacks one of the fields the validators check for (the score, progress,
\* confidence and evidence summary at every tier, and at the Question tier also
\* data_sources_count and the six inlined source fields), and such a payload
\* never produces a success; the other fields of the data model are optional,
\* and a result that lacks one carries the empty string for it.
CheckedFields(tier) ==
    IF tier = "question"
    THEN {"ai_score", "ai_progress", "confidence_level", "evidence_summary",
          "data_sources_count", "source_type", "source_name", "source_url",
          "source_data_year", "source_trust_level", "source_data_extract"}
    ELSE {"ai_score", "ai_progress", "confidence_level", "evidence_summary"}

C10_CheckedFieldsRequired ==
    /\ (Parsed /\ Lacking(CheckedFields(call.tier), lastResp.payload) # {})
       => /\ Validate(call.tier, lastResp.payload).exc = "ValueError"
          /\ Validate(call.tier, lastResp.payload).kind = "missing"
          /\ Validate(call.tier, lastResp.payload).field
                \in Lacking(CheckedFields(call.tier), lastResp.payload)
          /\ ~result.success
    /\ (Parsed /\ call.pc = "returned" /\ result.success)
       => \A f \in Lacking(DataModelFields(call.tier), lastResp.payload) :
             result.out[f] = StrV("")

\* a question payload without source_url, refused on the third attempt
C10_Witness ==
    /\ Parsed /\ call.tier = "question"
    /\ Lacking(CheckedFields("question"), lastResp.payload) = {"source_url"}
    /\ call.pc = "returned" /\ ~result.success
    /\ result.error = [exc |-> "ValueError", kind |-> "missing", field |-> "source_url"]

(* ====================================================================== *)
(*                               Discrepancy                              *)
(* ====================================================================== *)
\* the evaluator's progress handed to the orchestrator: scoreProgress for a
\* question, evaluator_score (a percentage) for a pillar and for a city
Baseline(c) == IF c.tier = "question" THEN c.scoreProgress ELSE c.evaluator
SameNumber(a, b) == IsNumber(a) /\ IsNumber(b) /\ Milli(a) = Milli(b)

\* C11 (as claimed): the discrepancy of a successful result of each
\* orchestrator is |ai_progress - evaluator progress| when the evaluator's
\* baseline is supplied and ai_progress itself when none is supplied.
C11_DiscrepancyAgainstProgress ==
    (/\ call.pc = "returned" /\ result.success
     /\ call.tier = "question" => (call.scoreProgress = Null <=> call.evaluator = Null))
    => IF Baseline(call) = Null
       THEN result.out["discrepancy"] = result.out["ai_progress"]
       ELSE SameNumber(result.out["discrepancy"],
                       AbsDiff(result.out["ai_progress"], Baseline(call)))

\* C12 (as claimed): in every question, pillar and city record passed to a bulk
\* upsert, Discrepancy is the absolute difference between the record's own
\* AIProgress and EvaluatorProgress.
C12_RecordDiscrepancy ==
    \A i \in 1..Len(upsertCall.rows) :
        upsertCall.rows[i].Discrepancy =
            Abs(upsertCall.rows[i].AIProgress - upsertCall.rows[i].EvaluatorProgress)

(* ====================================================================== *)
(*                          Numeric sanitization                          *)
(* ====================================================================== *)
Finite(x) == x # NonFiniteFloat
\* a value no number can be read from
Unusable(v) ==
    \/ v.t \in {"null", "nan", "inf", "list", "absent"}
    \/ v.t = "str" /\ ParseFloat(v.s) < 0
FiniteRow(r) ==
    /\ Finite(r.Year) /\ Finite(r.AIScore) /\ Finite(r.AIProgress)
    /\ Finite(r.EvaluatorProgress) /\ Finite(r.Discrepancy)
FiniteQuestionRow(r) ==
    /\ FiniteRow(r)
    /\ Finite(r.DataSourcesUsed) /\ Finite(r.SourceDataYear) /\ Finite(r.SourceTrustLevel)
FiniteSourceRow(r) == Finite(r.DataYear) /\ Finite(r.TrustLevel)

Rank(pc) ==
    IF pc \in {"Q_view", "Q_row", "Q_wait"} THEN 1
    ELSE IF pc \in {"P_view", "P_row", "P_wait"} THEN 2
    ELSE IF pc \in {"C_view", "C_row", "C_wait"} THEN 3
    ELSE 0
TierRank(tier) == IF tier = "question" THEN 1 ELSE IF tier = "pillar" THEN 2 ELSE 3
Working(r) == Rank(r.pc) > 0

\* C14: within one city of a batch run the engine is invoked for a tier only
\* while the run is in that tier, and the run never goes back from a later
\* tier to an earlier one: every Question-tier invocation and flush of the
\* city is over before its first Pillar-tier invocation, and every Pillar-tier
\* invocation before its first City-tier invocation.
C14_TiersInOrder ==
    [][/\ (Working(run) /\ call.invocations' > call.invocations)
          => /\ TierRank(call.tier) = Rank(run.pc)
             /\ run' = run
       /\ (upsertCall'.kind # "none" /\ Working(run))
          => TierRank(upsertCall'.kind) = Rank(run.pc)
       /\ (Working(run) /\ Working(run') /\ run'.city = run.city)
          => Rank(run'.pc) >= Rank(run.pc)
       /\ (Working(run) /\ Working(run')) => run'.city >= run.city]_vars

\* the engine has answered for the second city's City tier
C14_Witness ==
    /\ run.pc = "C_wait" /\ run.city = 2
    /\ call.tier = "city" /\ call.invocations >= 1

C16_BuffersInStep ==
    /\ run.pc \in {"P_row", "P_wait"}
       => Range(PillarIDs(pillarSourceList)) \subseteq Range(PillarIDs(pillarList))
    /\ upsertCall.kind = "pillar"
       => Range(PillarIDs(upsertCall.sources)) \subseteq Range(PillarIDs(upsertCall.rows))

\* C17 (as claimed): when a bulk upsert of the full batch raises, its rows are
\* in no buffer any more and the run goes on with the chunk that follows: the
\* next pillar of the Question tier, the next tier of the same city, or the
\* next city.
C17_RunContinuesAfterFailedFlush ==
    (upsertCall.raised /\ run.entry = "analyze_all_cities_questions")
    => LET city == upsertCall.rows[1].CityID
       IN  /\ questionList = <<>> /\ pillarList = <<>> /\ pillarSourceList = <<>>
           /\ cityList = <<>>
           /\ upsertCall.kind = "question"
              => /\ run.city = city
                 /\ IF upsertCall.rows[1].PillarID < run.npillars
                    THEN run.pc = "Q_row" /\ run.pillar = upsertCall.rows[1].PillarID + 1
                    ELSE run.pc = "P_view"
           /\ upsertCall.kind = "pillar" => run.city = city /\ run.pc = "C_view"
           /\ upsertCall.kind = "city"
              => IF city < run.ncities
                 THEN run.city = city + 1 /\ run.pc = FirstView(run.entry)
                 ELSE run.pc = "finished" /\ run.ret = "True"

(* ====================================================================== *)
(*                 What the entry points hand to their caller             *)
(* ====================================================================== *)
\* some entity of the loop that ran last failed
SomeEntityFailed == \E i \in 1..Len(entityStatus.st) : entityStatus.st[i] # "success"

C19_CityListFailureIsFatal ==
    run.ncities = -1
    => /\ run.pc = "finished" /\ run.ret = "raised"
       /\ call = IdleCall /\ ~result.present /\ ~llm_initialized
       /\ entityStatus = NoStatus
       /\ upsertCall = NoCall
       /\ questionList = <<>> /\ pillarList = <<>> /\ pillarSourceList = <<>>
       /\ cityList = <<>>

\* analyze_all_cities_questions has ended on a Cities query that raised
C19_Witness ==
    /\ run.entry = "analyze_all_cities_questions"
    /\ run.ncities = -1 /\ run.pc = "finished"

\* an entity of the loop under way, or of the loop that ran last, has succeeded
AnEntitySucceeded == \E i \in 1..Len(entityStatus.st) : entityStatus.st[i] = "success"

\* C20: a full batch run in which an entity has succeeded ends by returning
\* True, whatever fails: the only step that ends a run otherwise is its first
\* one, the query of the city list, taken before any entity is researched.
C20_SuccessWhenAnEntitySucceeded ==
    [][(run'.pc = "finished" /\ run'.ret # "True")
       => (run.pc = "idle" /\ entityStatus = NoStatus /\ ~AnEntitySucceeded)]_vars

\* a full batch run has returned True after a loop in which one entity
\* succeeded and another failed
C20_Witness ==
    /\ run.pc = "finished" /\ run.ret = "True"
    /\ run.entry = "analyze_all_cities_questions"
    /\ AnEntitySucceeded /\ SomeEntityFailed

(* ====================================================================== *)
(*                     Properties of the background runs                  *)
(* ====================================================================== *)
\* C21 (as claimed): no two engine invocations for the same entity are in
\* flight at the same time, also when several requests for one city arrive
\* while an earlier run is under way.
C21_SingleFlightPerEntity ==
    \A t1, t2 \in 1..NumTasks :
        (t1 # t2 /\ tasks[t1].pc = "inflight" /\ tasks[t2].pc = "inflight")
        => tasks[t1].entity # tasks[t2].entity

\* C29 (as claimed): llm_factory.create_llm() returns a handle at most once per
\* process, so the handle the service holds is never replaced.
C29_OneEngineHandle == llm <= 1

(* ====================================================================== *)
(*                  Order of the reads and writes of a run                *)
(* ====================================================================== *)
\* C22 (as claimed): within one run no view is read after a bulk upsert: the
\* run is never at a view read when its latest step has written to the store.
C22_NoReadAfterWrite ==
    (upsertCall.kind # "none" /\ ~upsertCall.raised)
    => run.pc \notin {"Q_view", "P_view", "C_view"}

(* ====================================================================== *)
(*                   Properties of the cleaning and repair                *)
(* ====================================================================== *)
\* C23 (as claimed): the cleaning of a response that wraps the text of a valid
\* object in prose and fences returns a text that parses to that very object;
\* a response without an opening or without a closing brace ends in the
\* ValueError that the retry loop catches.
C23_ExtractionRecoversObject ==
    (scan.pc = "done" /\ scan.source = "clean")
    => /\ JsonLoads(scan.object).ok
          => scan.exc = "none" /\ JsonLoads(scan.text) = JsonLoads(scan.object)
       /\ (Find(scan.response, "{") = 0 \/ Find(scan.response, "}") = 0)
          => scan.exc = "ValueError" /\ scan.kind = "extraction" /\ Retried(scan.exc)

\* the cleaning has handed a text to the repair and is done
Repaired == scan.pc = "done" /\ scan.source = "clean" /\ scan.fix.i > 1

\* C24 (as claimed): when the text handed to the repair is valid but for raw
\* newline, tab or carriage-return characters inside its strings, the repaired
\* text parses, and to the same keys and values that the text denotes with
\* those characters left in.
C24_RepairKeepsContent ==
    (Repaired /\ Loads(scan.fix.json_str, FALSE).ok)
    => /\ scan.exc = "none"
       /\ JsonLoads(scan.text) = Loads(scan.fix.json_str, FALSE)

RECURSIVE BackslashesBefore(_, _)
\* the number of consecutive backslashes that end just before place j
BackslashesBefore(text, j) ==
    IF j > 1 /\ text[j - 1] = BS THEN 1 + BackslashesBefore(text, j - 1) ELSE 0
\* a double quote that an even number of backslashes precedes
UnescapedQuote(text, j) == text[j] = DQ /\ BackslashesBefore(text, j) % 2 = 0

\* C26 (as claimed): after the scan has processed a prefix of its input,
\* in_string is true exactly when the prefix holds an odd number of unescaped
\* double quotes; the quote after an escaped backslash closes the string.
C26_InStringParity ==
    scan.pc \in {"scan", "done"}
    => LET text == scan.fix.json_str
           quotes == {j \in 1..(scan.fix.i - 1) : UnescapedQuote(text, j)}
       IN  scan.fix.in_string = (Cardinality(quotes) % 2 = 1)

\* the pass of the scan as C27 words it, with the string boundaries of C26:
\* a backslash inside a string goes out with the character it escapes, as a bare
\* single quote, or doubled (also as the last character); raw control
\* characters inside a string go out escaped; every other character unchanged
ClaimedStep(s) ==
    LET text == s.json_str
        char == text[s.i]
        last == s.i = Len(text)
        Emit(chars, k) == [s EXCEPT !.result = @ \o chars, !.i = @ + k]
    IN  IF UnescapedQuote(text, s.i)
        THEN [s EXCEPT !.in_string = ~@, !.result = Append(@, char), !.i = @ + 1]
        ELSE IF ~s.in_string THEN Emit(<<char>>, 1)
        ELSE IF char = BS
        THEN IF ~last /\ text[s.i + 1] \in {DQ, BS, "/", "b", "f", "n", "r", "t", "u"}
             THEN Emit(<<BS, text[s.i + 1]>>, 2)
             ELSE IF ~last /\ text[s.i + 1] = SQ THEN Emit(<<SQ>>, 2)
             ELSE Emit(<<BS, BS>>, 1)
        ELSE IF char = NL THEN Emit(<<BS, "n">>, 1)
        ELSE IF char = CR THEN Emit(<<BS, "r">>, 1)
        ELSE IF char = TAB THEN Emit(<<BS, "t">>, 1)
        ELSE Emit(<<char>>, 1)
RECURSIVE ClaimedLoop(_)
ClaimedLoop(s) == IF s.i > Len(s.json_str) THEN s ELSE ClaimedLoop(ClaimedStep(s))

\* C27 (as claimed): the text the repair returns is the one in which every
\* backslash inside a string literal is emitted with the character it validly
\* escapes, as a bare single quote when a single quote follows, and doubled
\* otherwise, also as the last character of the input, and in which every
\* character outside string literals is unchanged.
C27_BackslashHandling ==
    (scan.pc = "scan" /\ scan.fix.i > Len(scan.fix.json_str))
    => scan.fix.result = ClaimedLoop(FixStart(scan.fix.json_str)).result

\* the validator of the call's tier accepts the payload of the latest answer
AcceptedByValidator ==
    /\ Answered /\ lastResp.kind = "text"
    /\ _clean_json_response(lastResp).exc = "none"
    /\ Validate(call.tier, _clean_json_response(lastResp).data).exc = "none"

\* C28 (as claimed): at every tier, a payload the tier's validator accepts
\* makes the orchestrator return success=true on that attempt; shaping the
\* result record never fails for an accepted payload.
C28_AcceptedPayloadSucceeds ==
    AcceptedByValidator => (call.pc = "returned" /\ result.present /\ result.success)

(* ====================================================================== *)
(*                   What the full batch run returns                      *)
(* ====================================================================== *)
\* C30: analyze_all_cities_questions returns True whenever its Cities query
\* returned at least one city, whatever became of the entities and of the
\* flushes, and it returns False only when the query returned no city.
C30_ReturnDependsOnCityListOnly ==
    (run.pc = "finished" /\ run.entry = "analyze_all_cities_questions")
    => /\ (run.ncities >= 1 => run.ret = "True")
       /\ (run.ret = "False" <=> run.ncities = 0)

\* a full batch run over a non-empty city list has returned True although an
\* entity of its last loop failed and the flush that ended the loop raised
C30_Witness ==
    /\ run.pc = "finished" /\ run.entry = "analyze_all_cities_questions"
    /\ run.ncities >= 1 /\ run.ret = "True"
    /\ SomeEntityFailed
    /\ upsertCall.raised

(* ====================================================================== *)
(*                     Termination and engine budget                      *)
(* ====================================================================== *)
\* the engine invocations of the run so far, and the rows its loops have
\* iterated so far (the row whose orchestrator call is awaited included)
InvokedSoFar == run.invoked + call.invocations
IteratedSoFar == run.iterated + (IF run.pc \in {"Q_wait", "P_wait", "C_wait"} THEN 1 ELSE 0)

\* C25: every full batch run ends (no entity is retried without bound), and
\* at every moment of a tallied run the engine has been invoked at most
\* max_retries = 3 times for each entity row iterated; in a run without the
\* tally the same holds of the row whose orchestrator call is awaited.
C25_RunEndsWithinBudget ==
    /\ <>(run.pc = "finished")
    /\ [](InvokedSoFar <= max_retries * IteratedSoFar)

\* a run has ended after two or more rows, each of which took all three
\* invocations
C25_Witness ==
    /\ run.pc = "finished" /\ run.counted
    /\ run.iterated >= 2
    /\ run.invoked = max_retries * run.iterated

====
